---- MODULE Spec2Model ----
(***************************************************************************)
(* A model of the LDraw importer src/ldraw.py: the BFC scope, the colour   *)
(* table, file resolution, the multi-part split and the recursive reader   *)
(* readFile/readLine/lineType1, run as an explicit stack machine.          *)
(***************************************************************************)
EXTENDS Integers, Sequences, FiniteSets, TLC

VARIABLES
    plan,           \* the imports requested: a sequence of [cfg, filepath]
    cfg,            \* the globals set by execute(): LDRAWDIR, HIRES, LOWRES, USELIGHTS, MERGEPARTS
    disk,           \* the file system: path -> text (a sequence of lines)
    MATERIALS,      \* global MATERIALS: colour code/token -> material name
    bmats,          \* bpy.data.materials: material name -> colour value
    IGNOREOBJECTS,  \* global IGNOREOBJECTS: names of non-geometric files
    partsCache,     \* global partsCache: names known to exist under <root>/parts
    objs,           \* bpy.data.objects: sequence of object records
    meshes,         \* bpy.data.meshes: sequence of mesh records
    stack,          \* call stack of readFile activations (top = last)
    ret,            \* value returned by the last finished readFile (object id, 0 = None)
    status,         \* "idle" | "ldconfig" | "model" | "done" | "failed"
    warnings,       \* the warnings issued during the current import
    imports,        \* number of imports started
    trace,          \* history: what the last step did (a record)
    prev,           \* history: the program state before the last step (the record G)
    parses,         \* history: names whose lines have been parsed in this import
    steps,          \* history: the number of steps taken in this import
    scope,          \* BFC scope machine: the scope under study
    scopePrev,      \* BFC scope machine: the scope before the last step
    scopeOp,        \* BFC scope machine: the last step
    scopeLine       \* BFC scope machine: the options of the last BFC line read

vars == <<plan, cfg, disk, MATERIALS, bmats, IGNOREOBJECTS, partsCache, objs, meshes,
          stack, ret, status, warnings, imports, trace, prev, parses, steps,
          scope, scopePrev, scopeOp, scopeLine>>

importVars == <<plan, cfg, disk, MATERIALS, bmats, IGNOREOBJECTS, partsCache, objs, meshes,
                stack, ret, status, warnings, imports, trace, prev, parses, steps>>

scopeVars == <<scope, scopePrev, scopeOp, scopeLine>>

-----------------------------------------------------------------------------
(* Program constants *)

CW == 0
CCW == 1

-----------------------------------------------------------------------------
(* BFCContext *)

\* certified is None, True or False in the source; the three values are strings here
Certs == {"None", "True", "False"}

AllScopes ==
    [localCull : BOOLEAN, winding : {CW, CCW}, invertNext : BOOLEAN,
     certified : Certs, accumCull : BOOLEAN, accumInvert : BOOLEAN]

Xor(a, b) == (a /\ ~b) \/ (~a /\ b)

\* BFCContext(): other is None
BFCContextNew ==
    [localCull |-> TRUE, winding |-> CCW, invertNext |-> FALSE,
     certified |-> "None", accumCull |-> FALSE, accumInvert |-> FALSE]

\* BFCContextFrom with the test of other.certified left out
BFCContextFromUncertified(other) ==
    [localCull |-> TRUE, winding |-> CCW, invertNext |-> FALSE,
     certified |-> IF other.certified = "True" THEN "True" ELSE "None",
     accumCull |-> (other.accumCull /\ other.localCull),
     accumInvert |-> Xor(other.accumInvert, other.invertNext)]

\* BFCContext(other): the scope of a referenced file, derived from the parent's
BFCContextFrom(other) ==
    IF other.certified = "True"
    THEN [localCull |-> TRUE, winding |-> CCW, invertNext |-> FALSE,
          certified |-> "True",
          accumCull |-> (other.accumCull /\ other.localCull),
          accumInvert |-> Xor(other.accumInvert, other.invertNext)]
    ELSE [localCull |-> TRUE, winding |-> CCW, invertNext |-> FALSE,
          certified |-> "None", accumCull |-> FALSE, accumInvert |-> FALSE]

\* BFCContextCopy that leaves invertNext out
BFCContextCopyCleared(other) ==
    [localCull |-> other.localCull, winding |-> other.winding,
     invertNext |-> FALSE, certified |-> other.certified,
     accumCull |-> other.accumCull, accumInvert |-> other.accumInvert]

\* BFCContext(other, True): a field-by-field copy
BFCContextCopy(other) ==
    [localCull |-> other.localCull, winding |-> other.winding,
     invertNext |-> other.invertNext, certified |-> other.certified,
     accumCull |-> other.accumCull, accumInvert |-> other.accumInvert]

\* Consumed that clears nothing
ConsumedNever(bfc) == bfc

\* readLine, after a type-1 line: "bfc.invertNext = False"
Consumed(bfc) == [bfc EXCEPT !.invertNext = FALSE]

\* BFCOption with CCW and CW taken as declared, whatever accumInvert is
BFCOptionDeclared(bfc, option) ==
    CASE option = "CERTIFY" ->
            IF bfc.certified \in {"None", "True"}
            THEN [bfc |-> [bfc EXCEPT !.certified = "True"], raised |-> FALSE]
            ELSE [bfc |-> bfc, raised |-> TRUE]
      [] option = "NOCERTIFY" ->
            IF bfc.certified # "True"
            THEN [bfc |-> [bfc EXCEPT !.certified = "False"], raised |-> FALSE]
            ELSE [bfc |-> bfc, raised |-> TRUE]
      [] option = "CLIP" -> [bfc |-> [bfc EXCEPT !.localCull = TRUE], raised |-> FALSE]
      [] option = "NOCLIP" -> [bfc |-> [bfc EXCEPT !.localCull = FALSE], raised |-> FALSE]
      [] option = "CCW" -> [bfc |-> [bfc EXCEPT !.winding = CCW], raised |-> FALSE]
      [] option = "CW" -> [bfc |-> [bfc EXCEPT !.winding = CW], raised |-> FALSE]
      [] option = "INVERTNEXT" ->
            [bfc |-> [bfc EXCEPT !.invertNext = TRUE], raised |-> FALSE]
      [] OTHER -> [bfc |-> bfc, raised |-> FALSE]

\* BFCOption with the two assert statements left out
BFCOptionUnchecked(bfc, option) ==
    CASE option = "CERTIFY" -> [bfc |-> [bfc EXCEPT !.certified = "True"], raised |-> FALSE]
      [] option = "NOCERTIFY" -> [bfc |-> [bfc EXCEPT !.certified = "False"], raised |-> FALSE]
      [] option = "CLIP" -> [bfc |-> [bfc EXCEPT !.localCull = TRUE], raised |-> FALSE]
      [] option = "NOCLIP" -> [bfc |-> [bfc EXCEPT !.localCull = FALSE], raised |-> FALSE]
      [] option = "CCW" ->
            [bfc |-> [bfc EXCEPT !.winding = IF bfc.accumInvert THEN CW ELSE CCW],
             raised |-> FALSE]
      [] option = "CW" ->
            [bfc |-> [bfc EXCEPT !.winding = IF bfc.accumInvert THEN CCW ELSE CW],
             raised |-> FALSE]
      [] option = "INVERTNEXT" ->
            [bfc |-> [bfc EXCEPT !.invertNext = TRUE], raised |-> FALSE]
      [] OTHER -> [bfc |-> bfc, raised |-> FALSE]

\* One option of a "0 BFC ..." line.  Result: the scope and whether an
\* assert of the source failed (the AssertionError leaves the scope as it was).
BFCOption(bfc, option) ==
    CASE option = "CERTIFY" ->
            IF bfc.certified \in {"None", "True"}
            THEN [bfc |-> [bfc EXCEPT !.certified = "True"], raised |-> FALSE]
            ELSE [bfc |-> bfc, raised |-> TRUE]
      [] option = "NOCERTIFY" ->
            IF bfc.certified # "True"
            THEN [bfc |-> [bfc EXCEPT !.certified = "False"], raised |-> FALSE]
            ELSE [bfc |-> bfc, raised |-> TRUE]
      [] option = "CLIP" -> [bfc |-> [bfc EXCEPT !.localCull = TRUE], raised |-> FALSE]
      [] option = "NOCLIP" -> [bfc |-> [bfc EXCEPT !.localCull = FALSE], raised |-> FALSE]
      [] option = "CCW" ->
            [bfc |-> [bfc EXCEPT !.winding = IF bfc.accumInvert THEN CW ELSE CCW],
             raised |-> FALSE]
      [] option = "CW" ->
            [bfc |-> [bfc EXCEPT !.winding = IF bfc.accumInvert THEN CCW ELSE CW],
             raised |-> FALSE]
      [] option = "INVERTNEXT" ->
            [bfc |-> [bfc EXCEPT !.invertNext = TRUE], raised |-> FALSE]
      [] OTHER -> [bfc |-> bfc, raised |-> FALSE]

\* The options of one BFC line, left to right; stops at the first failed assert
RECURSIVE BFCOptions(_, _)
BFCOptions(bfc, options) ==
    IF options = << >> THEN [bfc |-> bfc, raised |-> FALSE]
    ELSE LET r == BFCOption(bfc, Head(options))
         IN IF r.raised THEN r ELSE BFCOptions(r.bfc, Tail(options))

\* lineType0 on a "0 BFC <options>" line
LineType0BFC(bfc, line) ==
    LET pre == IF bfc.certified = "True" /\ (\A i \in 1..Len(line.opts) : line.opts[i] # "NOCERTIFY")
               THEN [bfc EXCEPT !.certified = "True"]
               ELSE bfc
    IN BFCOptions(pre, line.opts)

-----------------------------------------------------------------------------
(* File names and paths *)

\* A file name: directory part, stem, extension, and whether the stem has
\* upper-case letters.  Directories starting with "/" are absolute.
NoName == [dir |-> "", stem |-> "", ext |-> "", caps |-> FALSE]

Nm(dir, stem, ext) == [dir |-> dir, stem |-> stem, ext |-> ext, caps |-> FALSE]

NmCaps(dir, stem, ext) == [dir |-> dir, stem |-> stem, ext |-> ext, caps |-> TRUE]

AbsDirs == {"/r1", "/r2"}

\* str.lower()
Lower(n) == [n EXCEPT !.caps = FALSE]

\* os.path.split(fname)[1]
Basename(n) == [n EXCEPT !.dir = ""]

\* os.path.splitext(fname)[1]
Splitext(n) == n.ext

\* os.path.join(LDRAWDIR, sub, fname): an absolute fname discards what precedes it
Join(root, sub, fname) ==
    IF fname.dir \in AbsDirs
    THEN [root |-> "", sub |-> "", name |-> fname]
    ELSE [root |-> root, sub |-> sub, name |-> fname]

\* list.insert(i, x), i counted from 0
InsertAt(s, i, x) == SubSeq(s, 1, i) \o <<x>> \o SubSeq(s, i + 1, Len(s))

\* Paths with the primitives directory tried before the parts directory
PathsPrimitivesFirst(fname, c) ==
    LET base == <<Join("", "", fname),
                  Join(c.LDRAWDIR, "p", fname),
                  Join(c.LDRAWDIR, "parts", fname),
                  Join(c.LDRAWDIR, "models", fname)>>
    IN IF c.HIRES THEN InsertAt(base, 1, Join(c.LDRAWDIR, "p/48", fname)) ELSE base

\* readFile: the candidate paths, in the order they are tried
Paths(fname, c) ==
    LET base == <<Join("", "", fname),
                  Join(c.LDRAWDIR, "parts", fname),
                  Join(c.LDRAWDIR, "p", fname),
                  Join(c.LDRAWDIR, "models", fname)>>
        hi == IF c.HIRES THEN InsertAt(base, 2, Join(c.LDRAWDIR, "p/48", fname)) ELSE base
    IN IF c.LOWRES THEN InsertAt(hi, 2, Join(c.LDRAWDIR, "p/8", fname)) ELSE hi

\* readFile: "for path in paths: if os.path.exists(path): ... break", from index i;
\* the index of the candidate that is opened, 0 if none exists
RECURSIVE FirstExistingFrom(_, _, _)
FirstExistingFrom(paths, d, i) ==
    IF i > Len(paths) THEN 0
    ELSE IF paths[i] \in DOMAIN d THEN i
         ELSE FirstExistingFrom(paths, d, i + 1)

FirstExisting(paths, d) == FirstExistingFrom(paths, d, 1)

\* isAPart(name): the answer, and the memo set afterwards
IsAPart(name, cache, c, d) ==
    IF name \in cache THEN [yes |-> TRUE, cache |-> cache]
    ELSE IF Join(c.LDRAWDIR, "parts", name) \in DOMAIN d
         THEN [yes |-> TRUE, cache |-> cache \cup {name}]
         ELSE [yes |-> FALSE, cache |-> cache]

-----------------------------------------------------------------------------
(* Lines of an LDraw file *)

\* t: the command ("" for a blank line, "9" for an unknown command);
\* kw, opts: keyword and options of a type-0 line ("" = a bare "0");
\* col: colour token; file: the file name of a type-1 or FILE line;
\* ok: the numeric fields parse as floats (types 1, 3, 4);
\* cname, val: name and VALUE of a !COLOUR line (col holds its CODE)
Ln(t, kw, opts, col, file, ok, cname, val) ==
    [t |-> t, kw |-> kw, opts |-> opts, col |-> col, file |-> file, ok |-> ok,
     cname |-> cname, val |-> val]

Blank == Ln("", "", << >>, "", NoName, TRUE, "", "")

Bare0 == Ln("0", "", << >>, "", NoName, TRUE, "", "")

Comment == Ln("0", "//", << >>, "", NoName, TRUE, "", "")

Bfc(opts) == Ln("0", "BFC", opts, "", NoName, TRUE, "", "")

Colour(cname, code, val) == Ln("0", "!COLOUR", << >>, code, NoName, TRUE, cname, val)

FileLn(n) == Ln("0", "FILE", << >>, "", n, TRUE, "", "")

NoFileLn == Ln("0", "NOFILE", << >>, "", NoName, TRUE, "", "")

Ref(col, n) == Ln("1", "", << >>, col, n, TRUE, "", "")

BadRef(col, n) == Ln("1", "", << >>, col, n, FALSE, "", "")

Edge == Ln("2", "", << >>, "16", NoName, TRUE, "", "")

Tri(col) == Ln("3", "", << >>, col, NoName, TRUE, "", "")

BadTri(col) == Ln("3", "", << >>, col, NoName, FALSE, "", "")

Quad(col) == Ln("4", "", << >>, col, NoName, TRUE, "", "")

Unknown == Ln("9", "", << >>, "", NoName, TRUE, "", "")

-----------------------------------------------------------------------------
(* Colours *)

\* colour tokens for which str.isdigit() holds
DigitTokens == {"16", "24", "4", "2", "7"}

\* colour tokens for which s.startswith("0x2") holds, with s[3:]
DirectTokens == {"0x2AA"}

DirectValue(s) == IF s = "0x2AA" THEN "AA" ELSE ""

\* f with key k set to v
Put(f, k, v) == [x \in (DOMAIN f) \cup {k} |-> IF x = k THEN v ELSE f[x]]

\* createMaterial(name, line, lineDict): the material `name` is reused or
\* created, registered under CODE and given VALUE
CreateMaterial(name, code, val, mats, bm) ==
    [MATERIALS |-> Put(mats, code, name), bmats |-> Put(bm, name, val), mat |-> name]

\* colorReference(s): (materialId, material), whether it warned, and the
\* tables afterwards.  "None" stands for None.
ColorReference(s, mats, bm) ==
    IF s \in DigitTokens
    THEN IF s \in {"16", "24"}
         THEN [id |-> s, mat |-> "None", warn |-> FALSE, MATERIALS |-> mats, bmats |-> bm]
         ELSE IF s \in DOMAIN mats
              THEN [id |-> s, mat |-> mats[s], warn |-> FALSE, MATERIALS |-> mats, bmats |-> bm]
              ELSE [id |-> "None", mat |-> "None", warn |-> TRUE, MATERIALS |-> mats, bmats |-> bm]
    ELSE IF s \in DirectTokens
         THEN IF s \in DOMAIN mats
              THEN [id |-> "None", mat |-> mats[s], warn |-> FALSE, MATERIALS |-> mats, bmats |-> bm]
              ELSE LET r == CreateMaterial(s, s, DirectValue(s), mats, bm)
                   IN [id |-> "None", mat |-> r.mat, warn |-> FALSE,
                       MATERIALS |-> r.MATERIALS, bmats |-> r.bmats]
         ELSE [id |-> "None", mat |-> "None", warn |-> TRUE, MATERIALS |-> mats, bmats |-> bm]

-----------------------------------------------------------------------------
(* The multi-part split of readFile *)

\* OpenEntry that keeps the text of an entry already in the archive
OpenEntryKeeps(subfiles, n) ==
    IF n \in DOMAIN subfiles THEN subfiles ELSE Put(subfiles, n, << >>)

\* readFile, on a FILE line: "subfiles[name] = ''"
OpenEntry(subfiles, n) == Put(subfiles, n, << >>)

\* The loop over the lines of a .mpd/.ldr file: st = [subfiles, name, hasName, firstName, hasFirst]
SplitLine(st, line) ==
    IF line.t = "0"
    THEN IF line.kw = "" THEN st
         ELSE IF line.kw = "FILE"
              THEN LET n == Lower(line.file)
                   IN [subfiles |-> OpenEntry(st.subfiles, n), name |-> n, hasName |-> TRUE,
                       firstName |-> IF st.hasFirst THEN st.firstName ELSE n,
                       hasFirst |-> TRUE]
              ELSE IF line.kw = "NOFILE"
                   THEN [st EXCEPT !.hasName = FALSE, !.name = NoName]
                   ELSE IF st.hasName
                        THEN [st EXCEPT !.subfiles[st.name] = Append(@, line)]
                        ELSE st
    ELSE IF st.hasName
         THEN [st EXCEPT !.subfiles[st.name] = Append(@, line)]
         ELSE st

RECURSIVE SplitLoop(_, _)
SplitLoop(st, text) ==
    IF text = << >> THEN st ELSE SplitLoop(SplitLine(st, Head(text)), Tail(text))

\* The archive and the name of the part to read, for the file fname with this text
Split(fname, text) ==
    LET st == SplitLoop([subfiles |-> << >>, name |-> NoName, hasName |-> FALSE,
                         firstName |-> NoName, hasFirst |-> FALSE], text)
    IN IF st.hasFirst
       THEN [subfiles |-> st.subfiles, firstName |-> st.firstName]
       ELSE [subfiles |-> Put(st.subfiles, Lower(fname), text), firstName |-> Lower(fname)]


-----------------------------------------------------------------------------
(* Objects, meshes and material slots (bpy.data.objects, bpy.data.meshes) *)

\* An object: name (suffix: Blender appended a numeric suffix, so the name is
\* not the file name), its mesh (0: a lamp), the material of its slot 0
\* (linked to the object), ldrawInheritsColor, and its parent (0: none).
\* bpy.data.objects.new(mname, mesh) with the object left out of bpy.data.objects
NewObjectUnregistered(mname, mesh, material) ==
    [name |-> mname, suffix |-> FALSE, alive |-> FALSE, lamp |-> FALSE, mesh |-> mesh,
     mat0 |-> material, inherits |-> FALSE, parent |-> 0]

NewObject(mname, mesh, material) ==
    [name |-> mname, suffix |-> FALSE, alive |-> TRUE, lamp |-> FALSE, mesh |-> mesh,
     mat0 |-> material, inherits |-> FALSE, parent |-> 0]

\* A mesh: its material list (entry 1 is hidden by the object-linked slot 0)
\* and its faces; a face is its material slot index and its colour token.
NewMesh(material) == [mats |-> <<material>>, faces |-> << >>]

\* the test "mname in bpy.data.objects" answered "no" for every name
InObjectsNever(mname, os) == FALSE

\* mname in bpy.data.objects
InObjects(mname, os) ==
    \E i \in 1..Len(os) : os[i].alive /\ ~os[i].suffix /\ os[i].name = mname

\* bpy.data.objects[mname]
ObjectNamed(mname, os) ==
    CHOOSE i \in 1..Len(os) : os[i].alive /\ ~os[i].suffix /\ os[i].name = mname

\* o.children
Children(os, o) == {i \in 1..Len(os) : os[i].alive /\ os[i].parent = o}

RECURSIVE Ascending(_)
Ascending(S) ==
    IF S = {} THEN << >>
    ELSE LET m == CHOOSE x \in S : \A y \in S : x <= y
         IN <<m>> \o Ascending(S \ {m})

\* The first DATA-linked slot of a mesh holding `material`, from slot i
\* (counted from 0, as material_index is); -1 if there is none.  Slot 0 is
\* linked to the object and never matches.
RECURSIVE FindSlotFrom(_, _, _)
FindSlotFrom(mats, material, i) ==
    IF i >= Len(mats) THEN -1
    ELSE IF i >= 1 /\ mats[i + 1] = material THEN i
         ELSE FindSlotFrom(mats, material, i + 1)

\* findMaterialIndex(listOfSlots, material), and the same loop in readLine
FindMaterialIndex(mats, material) == FindSlotFrom(mats, material, 0)

\* copyAndApplyMaterial(o, mat): the objects afterwards, the copy's id, and
\* whether an exception was raised (a lamp has no material slot to set)
RECURSIVE CopyAndApplyMaterial(_, _, _)
RECURSIVE CopyChildren(_, _, _, _)
CopyAndApplyMaterial(os, o, mat) ==
    LET p == Len(os) + 1
        rec == [os[o] EXCEPT !.suffix = TRUE,
                             !.mat0 = IF os[o].inherits /\ ~os[o].lamp THEN mat ELSE @]
        os1 == Append(os, rec)
    IN IF os[o].inherits /\ os[o].lamp
       THEN [objs |-> os1, id |-> p, raised |-> TRUE]
       ELSE CopyChildren(os1, p, Ascending(Children(os, o)), mat)

CopyChildren(os, p, cs, mat) ==
    IF cs = << >> THEN [objs |-> os, id |-> p, raised |-> FALSE]
    ELSE LET r == CopyAndApplyMaterial(os, Head(cs), mat)
         IN IF r.raised THEN [r EXCEPT !.id = p]
            ELSE CopyChildren([r.objs EXCEPT ![r.id].parent = p], p, Tail(cs), mat)

\* The material a face of object o is drawn with
FaceMaterial(os, ms, o, face) ==
    IF face.slot = 0 THEN os[o].mat0 ELSE ms[os[o].mesh].mats[face.slot + 1]


-----------------------------------------------------------------------------
(* The reader: readFile, readLine, lineType1 as steps over a call stack *)

Tr(op, what, name) == [op |-> op, what |-> what, name |-> name]

NoCur == [line |-> Blank, bfc |-> BFCContextNew, matId |-> "None", fname |-> NoName]

\* An activation of readFile(fname, bfc, first, material, subfiles, merge);
\* text: the lines of the file being parsed, lines: those not yet read
Frame(fname, bfc, first, material, subfiles, merge) ==
    [fname |-> fname, bfc |-> bfc, first |-> first, material |-> material,
     subfiles |-> subfiles, merge |-> merge, pc |-> "enter", mname |-> NoName,
     text |-> << >>, lines |-> << >>, bm |-> << >>, readLater |-> << >>, containsData |-> FALSE,
     obj |-> 0, cur |-> NoCur]

\* The mutable program state as one record
G ==
    [MATERIALS |-> MATERIALS, bmats |-> bmats, IGNOREOBJECTS |-> IGNOREOBJECTS,
     partsCache |-> partsCache, objs |-> objs, meshes |-> meshes, stack |-> stack,
     ret |-> ret, status |-> status, warnings |-> warnings, trace |-> trace,
     parses |-> parses]

Set(n) ==
    /\ MATERIALS' = n.MATERIALS
    /\ bmats' = n.bmats
    /\ IGNOREOBJECTS' = n.IGNOREOBJECTS
    /\ partsCache' = n.partsCache
    /\ objs' = n.objs
    /\ meshes' = n.meshes
    /\ stack' = n.stack
    /\ ret' = n.ret
    /\ status' = n.status
    /\ warnings' = n.warnings
    /\ trace' = n.trace
    /\ parses' = n.parses
    /\ steps' = steps + 1
    /\ prev' = G

Top(g) == g.stack[Len(g.stack)]

SetTop(g, f) == [g EXCEPT !.stack[Len(g.stack)] = f]

\* warnings.warn(...)
Warn(g, w) == [g EXCEPT !.warnings = Append(@, w)]

\* An uncaught exception: it unwinds every readFile and main
Raise(g, what) ==
    [g EXCEPT !.status = "failed", !.stack = << >>, !.trace = Tr("raise", what, NoName)]

\* readFile returns v (0: None) to its caller
Return(g, v, op, name) ==
    LET rest == SubSeq(g.stack, 1, Len(g.stack) - 1)
    IN [g EXCEPT !.stack = IF rest = << >> THEN rest
                            ELSE [rest EXCEPT ![Len(rest)].pc = "back"],
                 !.ret = v,
                 !.trace = Tr(op, "", name)]

\* readFile from "mname = os.path.split(fname)[1]" to the creation of the object
Begin(g, f, text) ==
    LET mname == Basename(f.fname)
    IN IF mname \in g.IGNOREOBJECTS THEN Return(g, 0, "ignored", mname)
       ELSE IF InObjects(mname, g.objs)
            THEN LET o == ObjectNamed(mname, g.objs)
                     r == CopyAndApplyMaterial(g.objs, o, f.material)
                 IN IF r.raised \/ g.objs[o].lamp THEN Raise(g, "IndexError")
                    ELSE Return([g EXCEPT !.objs = [r.objs EXCEPT ![r.id].mat0 = f.material]],
                                r.id, "cached", mname)
            ELSE LET m == Len(g.meshes) + 1
                     o == Len(g.objs) + 1
                 IN [SetTop(g, [f EXCEPT !.mname = mname, !.text = text, !.lines = text, !.obj = o,
                                         !.pc = "scan"])
                        EXCEPT !.meshes = Append(g.meshes, NewMesh(f.material)),
                               !.objs = Append(g.objs, NewObject(mname, m, f.material)),
                               !.parses = Append(g.parses, mname),
                               !.trace = Tr("parse", "", mname)]

\* NotFound with the warning replaced by an exception
NotFoundRaises(g, fname) == Raise(g, "IOError")

\* readFile: no candidate path exists; it warns and returns None
NotFound(g, fname) == Return(Warn(g, "Could not find file"), 0, "notfound", fname)

\* readFile from its first line to the creation of the object
ReadFileEnterStep(g, c, d) ==
    LET f == Top(g)
    IN IF f.fname \in DOMAIN f.subfiles THEN Begin(g, f, f.subfiles[f.fname])
       ELSE LET paths == Paths(f.fname, c)
                i == FirstExisting(paths, d)
            IN IF i = 0
               THEN NotFound(g, f.fname)
               ELSE IF Splitext(f.fname) \in {"mpd", "ldr"}
                    THEN LET sp == Split(f.fname, d[paths[i]])
                         IN [SetTop(g, [f EXCEPT !.fname = sp.firstName,
                                                 !.subfiles = sp.subfiles])
                                EXCEPT !.trace = Tr("split", "", f.fname)]
                    ELSE Begin(g, f, d[paths[i]])

\* readLine on a type-3 or type-4 line
PolyLine(g, f, line) ==
    IF ~line.ok
    THEN [SetTop(Warn(g, "ValueError"), [f EXCEPT !.containsData = TRUE])
            EXCEPT !.trace = Tr("badpoly", "", f.mname)]
    ELSE LET cr == ColorReference(line.col, g.MATERIALS, g.bmats)
             g1 == [(IF cr.warn THEN Warn(g, "Undefined color") ELSE g)
                      EXCEPT !.MATERIALS = cr.MATERIALS, !.bmats = cr.bmats]
             mesh == g.objs[f.obj].mesh
             mats == g.meshes[mesh].mats
             idx == FindMaterialIndex(mats, cr.mat)
         IN IF cr.id \notin {"16", "24"}
            THEN IF idx = -1
                 THEN [SetTop(g1, [f EXCEPT !.containsData = TRUE,
                                            !.bm = Append(@, [slot |-> Len(mats), tok |-> line.col])])
                         EXCEPT !.meshes[mesh].mats = Append(@, cr.mat),
                                !.trace = Tr("poly", "", f.mname)]
                 ELSE [SetTop(g1, [f EXCEPT !.containsData = TRUE,
                                            !.bm = Append(@, [slot |-> idx, tok |-> line.col])])
                         EXCEPT !.trace = Tr("poly", "", f.mname)]
            ELSE [SetTop(g1, [f EXCEPT !.containsData = TRUE,
                                       !.bm = Append(@, [slot |-> 0, tok |-> line.col])])
                    EXCEPT !.trace = Tr("poly", "", f.mname)]

\* readLine(line, ...) for the next line of the file being scanned
ReadLineStep(g) ==
    LET f0 == Top(g)
        line == Head(f0.lines)
        f == [f0 EXCEPT !.lines = Tail(@)]
        skip == [SetTop(g, f) EXCEPT !.trace = Tr("skip", line.t, f.mname)]
    IN CASE line.t = "" -> skip
         [] line.t = "0" ->
              IF line.kw = "!COLOUR"
              THEN LET r == CreateMaterial(line.cname, line.col, line.val, g.MATERIALS, g.bmats)
                   IN [SetTop(g, f) EXCEPT !.MATERIALS = r.MATERIALS, !.bmats = r.bmats,
                                           !.trace = Tr("colour", line.col, f.mname)]
              ELSE IF line.kw = "BFC"
                   THEN LET r == LineType0BFC(f.bfc, line)
                        IN IF r.raised THEN Raise(g, "AssertionError")
                           ELSE [SetTop(g, [f EXCEPT !.bfc = r.bfc])
                                   EXCEPT !.trace = Tr("bfc", "", f.mname)]
                   ELSE skip
         [] line.t = "1" ->
              [SetTop(g, [f EXCEPT !.readLater = Append(@, [line |-> line,
                                                            bfc |-> BFCContextCopy(f.bfc)]),
                                   !.bfc = Consumed(f.bfc),
                                   !.containsData = TRUE])
                 EXCEPT !.trace = Tr("defer", "", f.mname)]
         [] line.t \in {"3", "4"} -> PolyLine(g, f, line)
         [] line.t \in {"2", "5"} -> skip
         [] OTHER -> [Warn(skip, "Unknown linetype") EXCEPT !.trace = Tr("unknown", "", f.mname)]

\* readFile after its line loop: bm.to_mesh(mesh)
ScanEndStep(g) ==
    LET f == Top(g)
    IN [SetTop(g, [f EXCEPT !.pc = "later"])
          EXCEPT !.meshes[g.objs[f.obj].mesh].faces = f.bm,
                 !.trace = Tr("scanned", "", f.mname)]

\* InheritMaterial without the test for the codes 16 and 24
InheritMaterialNever(materialId, material, oldMaterial) == material

\* lineType1: "if materialId in (16, 24): material = oldMaterial"
InheritMaterial(materialId, material, oldMaterial) ==
    IF materialId \in {"16", "24"} THEN oldMaterial ELSE material

\* lineType1 up to its call of readFile, for the first deferred reference
LineType1CallStep(g, c, d) ==
    LET f0 == Top(g)
        args == Head(f0.readLater)
        line == args.line
        fname == Lower(line.file)
        cr == ColorReference(line.col, g.MATERIALS, g.bmats)
        g1 == [(IF cr.warn THEN Warn(g, "Undefined color") ELSE g)
                 EXCEPT !.MATERIALS = cr.MATERIALS, !.bmats = cr.bmats]
        material == InheritMaterial(cr.id, cr.mat, f0.material)
        f == [f0 EXCEPT !.readLater = Tail(@), !.pc = "call",
                        !.cur = [line |-> line, bfc |-> args.bfc, matId |-> cr.id,
                                 fname |-> fname]]
        call(g2, subfiles, merge) ==
            [g2 EXCEPT !.stack = Append(SetTop(g2, f).stack,
                                        Frame(fname, BFCContextFrom(args.bfc), FALSE,
                                              material, subfiles, merge)),
                       !.trace = Tr("call", "", fname)]
    IN IF ~line.ok THEN Raise(g, "ValueError")
       ELSE IF fname \in DOMAIN f0.subfiles THEN call(g1, f0.subfiles, f0.merge)
       ELSE IF fname = Nm("", "light", "dat") /\ c.USELIGHTS
            THEN IF material = "None" THEN Raise(g1, "AttributeError")
                 ELSE [SetTop(g1, [f EXCEPT !.pc = "back"])
                         EXCEPT !.objs = Append(g1.objs,
                                    [NewObject(fname, 0, "None")
                                       EXCEPT !.lamp = TRUE,
                                              !.suffix = InObjects(fname, g1.objs)]),
                                !.ret = Len(g1.objs) + 1,
                                !.trace = Tr("lamp", "", fname)]
            ELSE IF f0.merge \/ ~c.MERGEPARTS THEN call(g1, << >>, f0.merge)
                 ELSE LET p == IsAPart(fname, g1.partsCache, c, d)
                      IN call([g1 EXCEPT !.partsCache = p.cache], << >>, p.yes)

\* lineType1, merge branch: the loop over newObj.material_slots from slot idx.
\* ms: the meshes, pm/cm: parent and child mesh, map: oldToNewMatMap
RECURSIVE MergeSlots(_, _, _, _, _, _, _)
MergeSlots(ms, pm, cm, mat0, inherits, idx, map) ==
    IF idx >= Len(ms[cm].mats) THEN [meshes |-> ms, map |-> map]
    ELSE IF inherits /\ idx = 0 THEN MergeSlots(ms, pm, cm, mat0, inherits, idx + 1, map)
    ELSE LET material == IF idx = 0 THEN mat0 ELSE ms[cm].mats[idx + 1]
             matIdx == FindMaterialIndex(ms[pm].mats, material)
         IN IF matIdx = -1
            THEN MergeSlots([ms EXCEPT ![pm].mats = Append(@, material)], pm, cm, mat0,
                            inherits, idx + 1, Put(map, idx, Len(ms[pm].mats)))
            ELSE MergeSlots(ms, pm, cm, mat0, inherits, idx + 1, Put(map, idx, matIdx))

\* lineType1 after readFile (or the lamp creation) has returned newObj
LineType1BackStep(g, c, d) ==
    LET f == Top(g)
        newObj == g.ret
        fname == f.cur.fname
        p == IsAPart(fname, g.partsCache, c, d)
        g1 == [g EXCEPT !.partsCache = p.cache,
                        !.objs[newObj].inherits = IF f.cur.matId \in {"16", "24"} THEN TRUE ELSE @]
        child == g1.objs[newObj]
        pm == g1.objs[f.obj].mesh
    IN IF newObj = 0
       THEN [SetTop(g, [f EXCEPT !.pc = "later", !.cur = NoCur])
               EXCEPT !.trace = Tr("dropped", "", fname)]
       ELSE IF f.merge
            THEN IF child.lamp THEN Raise(g1, "TypeError")
                 ELSE LET r == MergeSlots(g1.meshes, pm, child.mesh, child.mat0,
                                          child.inherits, 0, (0 :> 0))
                          moved == [i \in 1..Len(r.meshes[child.mesh].faces) |->
                                       [r.meshes[child.mesh].faces[i]
                                          EXCEPT !.slot = r.map[@]]]
                      IN [SetTop(g1, [f EXCEPT !.pc = "later", !.cur = NoCur])
                            EXCEPT !.meshes = [r.meshes EXCEPT ![pm].faces = moved \o @],
                                   !.trace = Tr("merged", "", fname)]
            ELSE [SetTop(g1, [f EXCEPT !.pc = "later", !.cur = NoCur])
                    EXCEPT !.objs[newObj].parent = f.obj,
                           !.trace = Tr("attached", "", fname)]

\* Ignore that records nothing
IgnoreNothing(ignored, mname) == ignored

\* readFile: "IGNOREOBJECTS.add(mname)"
Ignore(ignored, mname) == ignored \cup {mname}

\* readFile after the deferred references: the header-file check and the return
ReadFileFinishStep(g) ==
    LET f == Top(g)
    IN IF ~f.containsData
       THEN Return([g EXCEPT !.IGNOREOBJECTS = Ignore(@, f.mname),
                             !.objs[f.obj].alive = FALSE],
                   0, "nodata", f.mname)
       ELSE Return(g, f.obj, "built", f.mname)


-----------------------------------------------------------------------------
(* Actions of the importer *)

\* os.path.join(LDRAWDIR, "LDConfig.ldr")
LDConfigName(c) == NmCaps(c.LDRAWDIR, "ldconfig", "ldr")

Running == status \in {"ldconfig", "model"}

\* IMPORT_OT_ldraw.execute and main() up to the call readFile(LDConfig.ldr)
Execute ==
    /\ status \in {"idle", "done", "failed"}
    /\ imports < Len(plan)
    /\ imports' = imports + 1
    /\ steps' = 0
    /\ cfg' = plan[imports + 1].cfg
    /\ MATERIALS' = << >>
    /\ IGNOREOBJECTS' = {}
    /\ stack' = <<Frame(LDConfigName(cfg'), BFCContextNew, FALSE, "None", << >>, FALSE)>>
    /\ status' = "ldconfig"
    /\ ret' = 0
    /\ warnings' = << >>
    /\ parses' = << >>
    /\ trace' = Tr("execute", "", NoName)
    /\ prev' = G
    /\ UNCHANGED <<plan, disk, bmats, partsCache, objs, meshes, scopeVars>>

\* main(): obj = readFile(fname, BFCContext(), first=True, transform=transform)
MainModel ==
    /\ status = "ldconfig"
    /\ stack = << >>
    /\ stack' = <<Frame(plan[imports].filepath, BFCContextNew, TRUE, "None", << >>, FALSE)>>
    /\ status' = "model"
    /\ trace' = Tr("model", "", plan[imports].filepath)
    /\ prev' = G
    /\ UNCHANGED <<plan, cfg, disk, MATERIALS, bmats, IGNOREOBJECTS, partsCache, objs,
                   meshes, ret, warnings, imports, parses, scopeVars>>
    /\ steps' = steps + 1

\* main(): bpy.context.scene.objects.link(obj), which raises on None
MainLink ==
    /\ status = "model"
    /\ stack = << >>
    /\ status' = IF ret = 0 THEN "failed" ELSE "done"
    /\ trace' = IF ret = 0 THEN Tr("raise", "TypeError", NoName) ELSE Tr("linked", "", NoName)
    /\ prev' = G
    /\ UNCHANGED <<plan, cfg, disk, MATERIALS, bmats, IGNOREOBJECTS, partsCache, objs,
                   meshes, stack, ret, warnings, imports, parses, scopeVars>>
    /\ steps' = steps + 1

Frozen == UNCHANGED <<plan, cfg, disk, imports, scopeVars>>

ReadFileEnter ==
    /\ Running /\ stack # << >> /\ Top(G).pc = "enter"
    /\ Set(ReadFileEnterStep(G, cfg, disk))
    /\ Frozen

ReadLine ==
    /\ Running /\ stack # << >> /\ Top(G).pc = "scan" /\ Top(G).lines # << >>
    /\ Set(ReadLineStep(G))
    /\ Frozen

ScanEnd ==
    /\ Running /\ stack # << >> /\ Top(G).pc = "scan" /\ Top(G).lines = << >>
    /\ Set(ScanEndStep(G))
    /\ Frozen

LineType1Call ==
    /\ Running /\ stack # << >> /\ Top(G).pc = "later" /\ Top(G).readLater # << >>
    /\ Set(LineType1CallStep(G, cfg, disk))
    /\ Frozen

LineType1Back ==
    /\ Running /\ stack # << >> /\ Top(G).pc = "back"
    /\ Set(LineType1BackStep(G, cfg, disk))
    /\ Frozen

ReadFileFinish ==
    /\ Running /\ stack # << >> /\ Top(G).pc = "later" /\ Top(G).readLater = << >>
    /\ Set(ReadFileFinishStep(G))
    /\ Frozen

Next ==
    \/ Execute
    \/ MainModel
    \/ MainLink
    \/ ReadFileEnter
    \/ ReadLine
    \/ ScanEnd
    \/ LineType1Call
    \/ LineType1Back
    \/ ReadFileFinish

-----------------------------------------------------------------------------
(* Inputs: the files on disk and the imports requested *)

\* The sequences over S of length at most n
SeqsUpTo(S, n) == UNION {[1..k -> S] : k \in 0..n}

Cfg(root, hires, lights, mergeparts) ==
    [LDRAWDIR |-> root, HIRES |-> hires, LOWRES |-> FALSE, USELIGHTS |-> lights,
     MERGEPARTS |-> mergeparts]

Lit(n) == [root |-> "", sub |-> "", name |-> n]

At(root, sub, n) == [root |-> root, sub |-> sub, name |-> n]

A == Nm("", "a", "dat")

B == Nm("", "b", "dat")

Missing == Nm("", "missing", "dat")

Light == Nm("", "light", "dat")

TopDat == Nm("", "top", "dat")

\* LDConfig.ldr: two colour definitions
LDConfigText == <<Colour("Red", "4", "C4"), Colour("Green", "2", "C2")>>

\* The state every import starts from
InitCommon ==
    /\ cfg = Cfg("/r1", FALSE, TRUE, FALSE)
    /\ MATERIALS = << >>
    /\ bmats = << >>
    /\ IGNOREOBJECTS = {}
    /\ partsCache = {}
    /\ objs = << >>
    /\ meshes = << >>
    /\ stack = << >>
    /\ ret = 0
    /\ status = "idle"
    /\ warnings = << >>
    /\ imports = 0
    /\ steps = 0
    /\ trace = Tr("init", "", NoName)
    /\ parses = << >>
    /\ prev = [MATERIALS |-> << >>, bmats |-> << >>, IGNOREOBJECTS |-> {},
               partsCache |-> {}, objs |-> << >>, meshes |-> << >>, stack |-> << >>,
               ret |-> 0, status |-> "idle", warnings |-> << >>,
               trace |-> Tr("init", "", NoName), parses |-> << >>]
    /\ scope = BFCContextNew
    /\ scopePrev = BFCContextNew
    /\ scopeOp = "init"
    /\ scopeLine = << >>

\* The files of a plain installation under root: LDConfig.ldr, parts/a.dat, p/b.dat
Library(root, a, b) ==
    (Lit(NmCaps(root, "ldconfig", "ldr")) :> LDConfigText)
        @@ (At(root, "parts", A) :> a)
        @@ (At(root, "p", B) :> b)

OneImport(c, filepath) == <<[cfg |-> c, filepath |-> filepath]>>

MaxTopLines == 3

MaxPartLines == 2

MaxArchiveLines == 4

\* Inputs with malformed lines, unresolved references and BFC meta lines
ErrorLines ==
    {Bfc(<<"CERTIFY">>), Bfc(<<"NOCERTIFY">>),
     Ref("4", A), Ref("4", Missing), Ref("4", Light), BadRef("4", A), BadTri("4")}

InitErrors ==
    \E top \in SeqsUpTo(ErrorLines, MaxTopLines),
       a \in {<<Tri("16")>>, <<Bfc(<<"NOCERTIFY">>), Tri("16")>>, <<Comment, Unknown>>} :
        /\ plan = OneImport(Cfg("/r1", FALSE, TRUE, FALSE), TopDat)
        /\ disk = (Lit(TopDat) :> top) @@ Library("/r1", a, <<Tri("16")>>)

\* Inputs with nested references, repeated references and reference cycles
TopColourLines == {Ref("4", A), Ref("2", A), Ref("4", B), Tri("4")}

PartLines == {Ref("16", B), Ref("16", A), Tri("16"), Comment}

SubpartTexts == {<<Tri("16")>>, <<Comment>>, <<Ref("16", A)>>}

InitColours ==
    \E top \in SeqsUpTo(TopColourLines, MaxPartLines),
       a \in SeqsUpTo(PartLines, MaxPartLines),
       b \in SubpartTexts :
        /\ plan = OneImport(Cfg("/r1", FALSE, TRUE, FALSE), TopDat)
        /\ disk = (Lit(TopDat) :> top) @@ Library("/r1", a, b)

\* Inputs that are multi-part files
Main == Nm("", "main", "ldr")

MainCaps == NmCaps("", "main", "ldr")

TopMpd == Nm("", "top", "mpd")

ArchiveLines ==
    {FileLn(MainCaps), FileLn(Main), FileLn(A), NoFileLn, Ref("4", A), Bare0}

InitArchive ==
    \E top \in SeqsUpTo(ArchiveLines, MaxArchiveLines) :
        /\ plan = OneImport(Cfg("/r1", FALSE, TRUE, FALSE), TopMpd)
        /\ disk = (Lit(TopMpd) :> top) @@ Library("/r1", <<Tri("4")>>, <<Tri("16")>>)

Init == InitCommon /\ InitColours

Spec == Init /\ [][Next]_vars

InitMalformed == InitCommon /\ InitErrors

SpecErrors == InitMalformed /\ [][Next]_vars

InitSplit == InitCommon /\ InitArchive

\* Inputs with BFC meta lines before, between and after reference lines
MaxScopeLines == 3

ScopeLines ==
    {Bfc(<<"CERTIFY">>), Bfc(<<"INVERTNEXT">>), Bfc(<<"NOCLIP">>), Ref("4", A), Tri("16"), Comment}

InitScopes ==
    \E top \in SeqsUpTo(ScopeLines, MaxScopeLines),
       a \in {<<Tri("16")>>, <<Bfc(<<"CERTIFY", "INVERTNEXT">>), Tri("16"), Ref("16", B), Ref("16", B)>>} :
        /\ plan = OneImport(Cfg("/r1", FALSE, TRUE, FALSE), TopDat)
        /\ disk = (Lit(TopDat) :> top) @@ Library("/r1", a, <<Tri("16")>>)

InitNested == InitCommon /\ InitScopes

\* Inputs with two files of one base name: parts/a.dat and parts/s/a.dat
SubA == Nm("s", "a", "dat")

KeyLines == {Ref("4", A), Ref("4", SubA), Tri("16")}

InitKeys ==
    \E top \in SeqsUpTo(KeyLines, MaxPartLines),
       a \in {<<Tri("16")>>, <<Comment>>},
       sa \in {<<Tri("4")>>, <<Comment>>} :
        /\ plan = OneImport(Cfg("/r1", FALSE, TRUE, FALSE), TopDat)
        /\ disk = (Lit(TopDat) :> top) @@ (At("/r1", "parts", SubA) :> sa)
                      @@ Library("/r1", a, <<Tri("16")>>)

InitSameBase == InitCommon /\ InitKeys

\* Inputs for merging: "merge parts" is on, a.dat is a part, b.dat and c.dat
\* are primitives, and b.dat may be read before the part that refers to it
Cdat == Nm("", "c", "dat")

MergeTopLines == {Ref("4", A), Ref("2", A), Ref("4", B)}

MergePartLines == {Ref("16", B), Ref("4", B), Tri("16"), Tri("4")}

MergeSubpartTexts == {<<Tri("16")>>, <<Ref("16", Cdat)>>, <<Tri("2"), Ref("4", Cdat)>>}

InitMerge ==
    \E top \in SeqsUpTo(MergeTopLines, MaxPartLines),
       a \in SeqsUpTo(MergePartLines, MaxPartLines),
       b \in MergeSubpartTexts :
        /\ plan = OneImport(Cfg("/r1", FALSE, TRUE, TRUE), TopDat)
        /\ disk = (Lit(TopDat) :> top) @@ (At("/r1", "p", Cdat) :> <<Tri("16")>>)
                      @@ Library("/r1", a, b)

InitMerging == InitCommon /\ InitMerge

\* Inputs for an archive whose main model refers to a file of the library
\* that refers to an archive entry: a.dat is an entry and also a file on disk
BelowLines == {FileLn(Main), FileLn(A), Ref("4", B), Ref("4", A), Tri("2")}

BelowSubpartTexts == {<<Ref("16", A)>>, <<Tri("16")>>}

InitBelow ==
    \E top \in SeqsUpTo(BelowLines, MaxArchiveLines), b \in BelowSubpartTexts :
        /\ plan = OneImport(Cfg("/r1", FALSE, TRUE, FALSE), TopMpd)
        /\ disk = (Lit(TopMpd) :> top) @@ Library("/r1", <<Tri("4")>>, b)

InitDepth == InitCommon /\ InitBelow

SpecDepth == InitDepth /\ [][Next]_vars

\* Inputs with colour definitions in the model file: a name LDConfig.ldr
\* uses under another code, a new name for a code LDConfig.ldr defines, a new
\* value for a pair LDConfig.ldr defines, and uses of a direct colour
ColourLines ==
    {Colour("Red", "2", "C9"), Colour("Crimson", "4", "C5"), Colour("Red", "4", "C7"),
     Tri("0x2AA"), Ref("4", A)}

InitRegistrations ==
    \E top \in SeqsUpTo(ColourLines, MaxTopLines), a \in {<<Tri("0x2AA")>>, <<Tri("16")>>} :
        /\ plan = OneImport(Cfg("/r1", FALSE, TRUE, FALSE), TopDat)
        /\ disk = (Lit(TopDat) :> top) @@ Library("/r1", a, <<Tri("16")>>)

InitRegistry == InitCommon /\ InitRegistrations

SpecRegistry == InitRegistry /\ [][Next]_vars

\* Inputs whose references form cycles: a.dat may refer to itself and to
\* b.dat, b.dat to itself and to a.dat, and the top file refers to a.dat once
\* or twice
MaxCycleLines == 2

CycleLines == {Ref("16", A), Ref("16", B), Tri("16")}

CycleSubpartTexts == {<<Tri("16")>>, <<Ref("16", A)>>, <<Ref("16", B)>>}

InitCycles ==
    \E top \in {<<Ref("4", A)>>, <<Ref("4", A), Ref("2", A)>>},
       a \in SeqsUpTo(CycleLines, MaxCycleLines),
       b \in CycleSubpartTexts :
        /\ plan = OneImport(Cfg("/r1", FALSE, TRUE, FALSE), TopDat)
        /\ disk = (Lit(TopDat) :> top) @@ Library("/r1", a, b)

InitLoops == InitCommon /\ InitCycles

SpecCycles == InitLoops /\ [][Next]_vars

\* Inputs for copies of nested parts: merging is off, the top file refers to
\* a.dat with two colours, a.dat to b.dat with colour 16 or with colour 4,
\* b.dat to c.dat with colour 16 or with colour 4
InitCopies ==
    \E top \in SeqsUpTo(MergeTopLines, MaxPartLines),
       a \in SeqsUpTo(MergePartLines, MaxPartLines),
       b \in MergeSubpartTexts :
        /\ plan = OneImport(Cfg("/r1", FALSE, TRUE, FALSE), TopDat)
        /\ disk = (Lit(TopDat) :> top) @@ (At("/r1", "p", Cdat) :> <<Tri("16")>>)
                      @@ Library("/r1", a, b)

InitNestedCopies == InitCommon /\ InitCopies

SpecCopies == InitNestedCopies /\ [][Next]_vars

SpecMerge == InitMerging /\ [][Next]_vars

SpecKeys == InitSameBase /\ [][Next]_vars

SpecScopes == InitNested /\ [][Next]_vars

SpecArchive == InitSplit /\ [][Next]_vars

\* Inputs for the search order: a.dat present in any subset of the places a
\* file is looked for, each copy with a text of its own
Tagged(v) == Ln("0", "//", << >>, "", NoName, TRUE, "", v)

Places == {"", "parts", "p", "p/48", "p/8", "models"}

Copy(place) == <<Tagged(place), Tri("16")>>

CopyAt(root, place) == IF place = "" THEN Lit(A) ELSE At(root, place, A)

InitResolve ==
    \E present \in SUBSET Places, hires \in BOOLEAN, archived \in BOOLEAN :
        /\ plan = OneImport(Cfg("/r1", hires, TRUE, FALSE), IF archived THEN TopMpd ELSE TopDat)
        /\ disk = [q \in {CopyAt("/r1", place) : place \in present} |->
                      Copy(CHOOSE place \in present : CopyAt("/r1", place) = q)]
                  @@ (Lit(NmCaps("/r1", "ldconfig", "ldr")) :> LDConfigText)
                  @@ (Lit(TopDat) :> <<Ref("4", A)>>)
                  @@ (Lit(TopMpd) :> <<FileLn(Main), Ref("4", A), FileLn(A)>> \o Copy("archive"))

InitLookup == InitCommon /\ InitResolve

SpecResolve == InitLookup /\ [][Next]_vars

\* Inputs for two imports in one session, the second from the same or from
\* another LDraw directory, in which a.dat is a primitive and not a part
SecondLibrary ==
    (Lit(NmCaps("/r2", "ldconfig", "ldr")) :> <<Colour("Blue", "4", "C1")>>)
        @@ (At("/r2", "p", A) :> <<Tri("2")>>)

SessionLines == {Ref("4", A), Ref("16", B), Tri("4"), Comment}

InitSession ==
    \E top \in SeqsUpTo(SessionLines, MaxPartLines), root \in AbsDirs, m \in BOOLEAN :
        /\ plan = <<[cfg |-> Cfg("/r1", FALSE, TRUE, m), filepath |-> TopDat],
                    [cfg |-> Cfg(root, FALSE, TRUE, m), filepath |-> TopDat]>>
        /\ disk = (Lit(TopDat) :> top) @@ Library("/r1", <<Tri("16")>>, <<Comment>>)
                      @@ SecondLibrary

InitTwice == InitCommon /\ InitSession

SpecSession == InitTwice /\ [][Next]_vars


-----------------------------------------------------------------------------
(* The BFC scope on its own: BFCContext and the BFC options applied to any scope *)

OptionWords == {"CERTIFY", "NOCERTIFY", "CLIP", "NOCLIP", "CCW", "CW", "INVERTNEXT"}

MaxOptions == 2

\* readLine on a "0 BFC <options>" line
ScopeLine0 ==
    \E opts \in SeqsUpTo(OptionWords, MaxOptions) :
        LET r == LineType0BFC(scope, Bfc(opts))
        IN /\ scopeOp # "raised"
           /\ scopePrev' = scope
           /\ scope' = r.bfc
           /\ scopeOp' = IF r.raised THEN "raised" ELSE "bfc"
           /\ UNCHANGED <<scopeLine, importVars>>

\* readLine on a type-1 line: the scope is captured, then invertNext is cleared
ScopeLine1 ==
    /\ scopeOp # "raised"
    /\ scopePrev' = BFCContextCopy(scope)
    /\ scope' = Consumed(scope)
    /\ scopeOp' = "defer"
    /\ UNCHANGED <<scopeLine, importVars>>

\* lineType1 on the captured scope: readFile(fname, BFCContext(bfc), ...)
ScopeDescend ==
    /\ scopeOp = "defer"
    /\ scope' = BFCContextFrom(scopePrev)
    /\ scopeOp' = "child"
    /\ UNCHANGED <<scopePrev, scopeLine, importVars>>

NextBFC == ScopeLine0 \/ ScopeLine1 \/ ScopeDescend

InitIdle ==
    /\ plan = << >>
    /\ disk = << >>
    /\ cfg = Cfg("/r1", FALSE, TRUE, FALSE)
    /\ MATERIALS = << >>
    /\ bmats = << >>
    /\ IGNOREOBJECTS = {}
    /\ partsCache = {}
    /\ objs = << >>
    /\ meshes = << >>
    /\ stack = << >>
    /\ ret = 0
    /\ status = "idle"
    /\ warnings = << >>
    /\ imports = 0
    /\ steps = 0
    /\ trace = Tr("init", "", NoName)
    /\ parses = << >>
    /\ prev = [MATERIALS |-> << >>, bmats |-> << >>, IGNOREOBJECTS |-> {},
               partsCache |-> {}, objs |-> << >>, meshes |-> << >>, stack |-> << >>,
               ret |-> 0, status |-> "idle", warnings |-> << >>,
               trace |-> Tr("init", "", NoName), parses |-> << >>]

InitBFC ==
    /\ InitIdle
    /\ scope \in AllScopes
    /\ scopePrev = scope
    /\ scopeOp = "init"
    /\ scopeLine = << >>

SpecBFC == InitBFC /\ [][NextBFC]_vars

\* lineType0 as a function of the scope and of the options of one BFC line:
\* the scope is an input drawn by InitBFC, the line is applied to it once and
\* its options are kept in scopeLine
LineType0Once ==
    \E opts \in SeqsUpTo(OptionWords, MaxOptions) :
        LET r == LineType0BFC(scope, Bfc(opts))
        IN /\ scopeOp = "init"
           /\ scopePrev' = scope
           /\ scope' = r.bfc
           /\ scopeOp' = IF r.raised THEN "raised" ELSE "bfc"
           /\ scopeLine' = opts
           /\ UNCHANGED importVars

SpecWinding == InitBFC /\ [][LineType0Once]_vars

-----------------------------------------------------------------------------
(* C1 *)

\* C1: the scope of a referenced file is derived from the scope captured for
\* the reference: from a certified parent, accumCull = parent.accumCull AND
\* parent.localCull and accumInvert = parent.accumInvert XOR parent.invertNext;
\* from a parent that is not certified, both are false.
C1_ChildScope ==
    scopeOp = "child" =>
        IF scopePrev.certified = "True"
        THEN /\ scope.accumCull = (scopePrev.accumCull /\ scopePrev.localCull)
             /\ scope.accumInvert = (scopePrev.accumInvert # scopePrev.invertNext)
        ELSE /\ scope.accumCull = FALSE
             /\ scope.accumInvert = FALSE

\* the parent of the spec's example, certified, and the child derived from it
C1_Witness ==
    /\ scopeOp = "child"
    /\ scopePrev.certified = "True"
    /\ scopePrev.accumCull /\ ~scopePrev.accumInvert
    /\ scopePrev.localCull /\ scopePrev.invertNext
    /\ scope.accumCull /\ scope.accumInvert


-----------------------------------------------------------------------------
(* Claims about the importer.  prev is the program state before the last   *)
(* step, so a formula over prev and the current state speaks of one step.  *)

PrevTop == prev.stack[Len(prev.stack)]

\* the last step ran on an activation that was at pc
PrevAt(pc) == prev.status \in {"ldconfig", "model"} /\ prev.stack # << >> /\ PrevTop.pc = pc

\* the stack with its top activation replaced by f
WithTop(stk, f) == [stk EXCEPT ![Len(stk)] = f]

\* the stack after its top activation has returned to its caller
Returned(stk) ==
    LET rest == SubSeq(stk, 1, Len(stk) - 1)
    IN IF rest = << >> THEN rest ELSE [rest EXCEPT ![Len(rest)].pc = "back"]

SearchDirs == {"parts", "p", "p/48", "p/8", "models"}

\* fname is neither an entry of the archive nor a file of any search root
Nowhere(fname, subfiles) ==
    /\ fname \notin DOMAIN subfiles
    /\ Lit(fname) \notin DOMAIN disk
    /\ \A sub \in SearchDirs : At(cfg.LDRAWDIR, sub, fname) \notin DOMAIN disk

\* lineType1 makes a lamp of this reference without looking the file up
LampReference(fname, subfiles) ==
    fname = Light /\ cfg.USELIGHTS /\ fname \notin DOMAIN subfiles

\* C2: a poly line with colour 16 or 24 gets the colour its file inherited
\* from the invoking reference, a reference line with 16 or 24 hands that
\* colour on to the file it reads, and any other defined code gets its entry
\* of the colour table; the object of a file carries the inherited colour.
C2_InheritedColour ==
    /\ PrevAt("scan") /\ PrevTop.lines # << >> /\ Head(PrevTop.lines).t \in {"3", "4"}
       /\ Head(PrevTop.lines).ok
       => LET tok == Head(PrevTop.lines).col
              f == Top(G)
              face == f.bm[Len(f.bm)]
              shown == IF face.slot = 0 THEN objs[f.obj].mat0
                       ELSE meshes[objs[f.obj].mesh].mats[face.slot + 1]
          IN /\ Len(f.bm) = Len(PrevTop.bm) + 1
             /\ objs[f.obj].mat0 = f.material
             /\ tok \in {"16", "24"} => shown = f.material
             /\ tok \in DOMAIN prev.MATERIALS => shown = prev.MATERIALS[tok]
    /\ trace.op = "call"
       => LET caller == stack[Len(stack) - 1]
              tok == caller.cur.line.col
          IN /\ tok \in {"16", "24"} => Top(G).material = caller.material
             /\ tok \in DOMAIN prev.MATERIALS => Top(G).material = prev.MATERIALS[tok]
    /\ trace.op = "parse" => objs[Top(G).obj].mat0 = Top(G).material
    /\ trace.op = "cached" => objs[ret].mat0 = PrevTop.material

\* a colour-16 triangle two references deep, reached through a colour-16
\* reference inside a part instantiated with colour 4
C2_Witness ==
    /\ trace.op = "poly"
    /\ Len(stack) = 3
    /\ stack[1].cur.line.col = "4"
    /\ stack[2].cur.line.col = "16"
    /\ Head(PrevTop.lines).col = "16"
    /\ "4" \in DOMAIN MATERIALS
    /\ objs[Top(G).obj].mat0 = MATERIALS["4"]
    /\ Top(G).bm[Len(Top(G).bm)].slot = 0

\* C3 as stated: a reference to a file found nowhere returns nothing to
\* lineType1 and has produced one warning and no object
C3_UnresolvedDropped ==
    stack # << >> /\ Top(G).pc = "back" /\ Nowhere(Top(G).cur.fname, Top(G).subfiles)
    => /\ ret = 0
       /\ warnings = Append(prev.warnings, "Could not find file")
       /\ objs = prev.objs

\* C3, amended: a reference to a file found nowhere, other than a light.dat
\* reference while lights are enabled, is read by readFile, which warns once
\* and returns None; lineType1 then adds no object and no face, and the
\* parent's read goes on with its remaining deferred references.
C3_UnresolvedDroppedUnlessLamp ==
    /\ PrevAt("later") /\ PrevTop.readLater # << >> /\ Head(PrevTop.readLater).line.ok
       /\ Nowhere(Lower(Head(PrevTop.readLater).line.file), PrevTop.subfiles)
       /\ ~LampReference(Lower(Head(PrevTop.readLater).line.file), PrevTop.subfiles)
       => /\ trace.op = "call"
          /\ Top(G).pc = "enter"
          /\ Top(G).fname = Lower(Head(PrevTop.readLater).line.file)
          /\ Top(G).subfiles = << >>
    /\ PrevAt("enter") /\ Len(prev.stack) > 1 /\ Nowhere(PrevTop.fname, PrevTop.subfiles)
       => /\ ret = 0
          /\ warnings = Append(prev.warnings, "Could not find file")
          /\ objs = prev.objs /\ meshes = prev.meshes
          /\ status = prev.status
          /\ stack = Returned(prev.stack)
    /\ PrevAt("back") /\ prev.ret = 0
       => /\ objs = prev.objs /\ meshes = prev.meshes
          /\ warnings = prev.warnings
          /\ status = prev.status
          /\ stack = WithTop(prev.stack, [PrevTop EXCEPT !.pc = "later", !.cur = NoCur])

\* an unresolved reference has been dropped and the parent has deferred
\* references left to process
C3_Witness ==
    /\ PrevAt("back") /\ prev.ret = 0
    /\ Nowhere(PrevTop.cur.fname, PrevTop.subfiles)
    /\ prev.warnings # << >>
    /\ stack # << >> /\ Top(G).readLater # << >>

\* C4: a line of type 1, 3 or 4 with a malformed numeric field is skipped
\* with a warning, and the read goes on
C4_MalformedSkipped ==
    /\ PrevAt("scan") /\ PrevTop.lines # << >> /\ Head(PrevTop.lines).t \in {"3", "4"}
       /\ ~Head(PrevTop.lines).ok
       => /\ status = prev.status
          /\ Len(warnings) = Len(prev.warnings) + 1
          /\ Len(stack) = Len(prev.stack)
          /\ Top(G).lines = Tail(PrevTop.lines)
    /\ PrevAt("later") /\ PrevTop.readLater # << >> /\ ~Head(PrevTop.readLater).line.ok
       => /\ status = prev.status
          /\ Len(warnings) = Len(prev.warnings) + 1
          /\ Len(stack) = Len(prev.stack)
          /\ Top(G).readLater = Tail(PrevTop.readLater)

\* a CERTIFY or NOCERTIFY among opts contradicts the certification held
Contradicts(bfc, opts) ==
    \E i \in 1..Len(opts) :
        \/ opts[i] = "CERTIFY" /\ bfc.certified = "False"
        \/ opts[i] = "NOCERTIFY" /\ bfc.certified = "True"

\* C5: a BFC line whose CERTIFY or NOCERTIFY contradicts the certification
\* held by the scope leaves certified as it was, and the read goes on
C5_ConflictRecovered ==
    PrevAt("scan") /\ PrevTop.lines # << >> /\ Head(PrevTop.lines).kw = "BFC"
    /\ Contradicts(PrevTop.bfc, Head(PrevTop.lines).opts)
    => /\ status = prev.status
       /\ Len(stack) = Len(prev.stack)
       /\ Top(G).bfc.certified = PrevTop.bfc.certified
       /\ Top(G).lines = Tail(PrevTop.lines)


\* every line of text is a type-0 line
MetaOnly(text) == \A i \in DOMAIN text : text[i].t = "0"

\* the number of parses of the name n in this import
Parsed(n) == Cardinality({i \in DOMAIN parses : parses[i] = n})

\* C6: the read of a file with only type-0 lines returns None and records the
\* file's name in IGNOREOBJECTS; a later read of that name in the same import
\* returns None without parsing any line, so the name is parsed once.
C6_MetaOnlyIgnored ==
    /\ PrevAt("later") /\ PrevTop.readLater = << >> /\ MetaOnly(PrevTop.text)
       => /\ ret = 0
          /\ PrevTop.mname \in IGNOREOBJECTS
          /\ stack = Returned(prev.stack)
    /\ PrevAt("enter") /\ Basename(PrevTop.fname) \in prev.IGNOREOBJECTS
       /\ (PrevTop.fname \in DOMAIN PrevTop.subfiles
           \/ Splitext(PrevTop.fname) \notin {"mpd", "ldr"})
       => /\ ret = 0
          /\ parses = prev.parses
          /\ objs = prev.objs /\ meshes = prev.meshes
          /\ stack = Returned(prev.stack)
    /\ \A n \in IGNOREOBJECTS : Parsed(n) = 1

\* a second reference to a.dat, which holds meta lines only, has returned None
C6_Witness ==
    /\ PrevAt("enter") /\ Len(prev.stack) = 2
    /\ PrevTop.fname = A
    /\ A \in prev.IGNOREOBJECTS
    /\ MetaOnly(disk[At(cfg.LDRAWDIR, "parts", A)])
    /\ ret = 0 /\ Parsed(A) = 1

IsFile(l) == l.t = "0" /\ l.kw = "FILE"

IsNoFile(l) == l.t = "0" /\ l.kw = "NOFILE"

IsBare0(l) == l.t = "0" /\ l.kw = ""

NotBare0(l) == ~IsBare0(l)

FileIdx(text) == {i \in DOMAIN text : IsFile(text[i])}

Least(S) == CHOOSE i \in S : \A j \in S : i <= j

Greatest(S) == CHOOSE i \in S : \A j \in S : j <= i

\* the lines after the FILE line i, up to the next FILE line, NOFILE line or the end
Block(text, i) ==
    LET ends == {j \in (i + 1)..Len(text) : IsFile(text[j]) \/ IsNoFile(text[j])}
    IN SubSeq(text, i + 1, Least(ends \cup {Len(text) + 1}) - 1)

Caseless(n) == [n EXCEPT !.caps = FALSE]

\* the state after readFile has split the file it opened by the literal path
AfterSplit == PrevAt("enter") /\ trace.op = "split" /\ Lit(PrevTop.fname) \in DOMAIN disk

\* C7 as stated: one entry per FILE line, holding exactly the lines of its block
C7_EntryPerFileLine ==
    AfterSplit
    => LET text == disk[Lit(PrevTop.fname)]
           sub == Top(G).subfiles
       IN IF FileIdx(text) = {}
          THEN /\ DOMAIN sub = {Caseless(PrevTop.fname)}
               /\ sub[Caseless(PrevTop.fname)] = text
               /\ Top(G).fname = Caseless(PrevTop.fname)
          ELSE /\ Cardinality(DOMAIN sub) = Cardinality(FileIdx(text))
               /\ \A i \in FileIdx(text) :
                     /\ Caseless(text[i].file) \in DOMAIN sub
                     /\ sub[Caseless(text[i].file)] = Block(text, i)
               /\ Top(G).fname = Caseless(text[Least(FileIdx(text))].file)

\* C7, amended: the archive has one entry per distinct lowercased name of a
\* FILE line; its text is the block of the last FILE line with that name, less
\* the lines that are a bare "0"; the part then read is the entry named by the
\* first FILE line.  Without any FILE line the archive has one entry, named
\* after the lowercased filename, holding the whole text.
C7_EntryPerName ==
    AfterSplit
    => LET text == disk[Lit(PrevTop.fname)]
           sub == Top(G).subfiles
       IN /\ Top(G).pc = "enter"
          /\ IF FileIdx(text) = {}
             THEN /\ DOMAIN sub = {Caseless(PrevTop.fname)}
                  /\ sub[Caseless(PrevTop.fname)] = text
                  /\ Top(G).fname = Caseless(PrevTop.fname)
             ELSE /\ DOMAIN sub = {Caseless(text[i].file) : i \in FileIdx(text)}
                  /\ \A n \in DOMAIN sub :
                        sub[n] = SelectSeq(
                                    Block(text, Greatest({i \in FileIdx(text) :
                                                            Caseless(text[i].file) = n})),
                                    NotBare0)
                  /\ Top(G).fname = Caseless(text[Least(FileIdx(text))].file)

\* a file with two FILE lines of one name (in different case) and a bare "0"
\* in the second block has been split
C7_Witness ==
    /\ AfterSplit
    /\ LET text == disk[Lit(PrevTop.fname)]
       IN /\ Len(text) = 4
          /\ text[1] = FileLn(MainCaps) /\ text[3] = FileLn(Main) /\ text[4] = Bare0
          /\ text[2] = Ref("4", A)
    /\ DOMAIN Top(G).subfiles = {Main}
    /\ Top(G).subfiles[Main] = << >>

\* the text readFile must get for fname: the archive entry, else the first
\* of the candidate files that exists; << >> when there is none
Sought(fname, subfiles, c, d) ==
    LET lit == Lit(fname)
        parts == At(c.LDRAWDIR, "parts", fname)
        p48 == At(c.LDRAWDIR, "p/48", fname)
        p == At(c.LDRAWDIR, "p", fname)
        models == At(c.LDRAWDIR, "models", fname)
    IN IF fname \in DOMAIN subfiles THEN subfiles[fname]
       ELSE IF lit \in DOMAIN d THEN d[lit]
       ELSE IF parts \in DOMAIN d THEN d[parts]
       ELSE IF c.HIRES /\ p48 \in DOMAIN d THEN d[p48]
       ELSE IF p \in DOMAIN d THEN d[p]
       ELSE IF models \in DOMAIN d THEN d[models]
       ELSE << >>

\* C8: readFile reads the archive entry of the name if there is one, else the
\* first existing file among the literal path, <root>/parts, <root>/p/48 (with
\* hi-res only), <root>/p, <root>/models; it warns and returns None exactly
\* when none of them exists.
C8_FirstCandidateWins ==
    PrevAt("enter") /\ PrevTop.fname = A
    => LET text == Sought(A, PrevTop.subfiles, cfg, disk)
       IN IF text = << >>
          THEN trace.op = "notfound" /\ ret = 0
          ELSE /\ trace.op = "parse"
               /\ Top(G).text = text
               /\ Top(G).lines = text

\* a.dat exists in <root>/p/48, <root>/p, <root>/p/8 and <root>/models only
\* and hi-res is requested: the copy in p/48 is the one parsed
C8_Witness ==
    /\ PrevAt("enter") /\ PrevTop.fname = A /\ PrevTop.subfiles = << >>
    /\ cfg.HIRES
    /\ {place \in Places : CopyAt(cfg.LDRAWDIR, place) \in DOMAIN disk}
          = {"p/48", "p", "p/8", "models"}
    /\ Top(G).text = Copy("p/48")

\* C9: every import starts with an empty colour table, an empty part cache
\* (no object left in bpy.data.objects), an empty IGNOREOBJECTS and an empty
\* partsCache
C9_ImportStartsEmpty ==
    trace.op = "execute"
    => /\ MATERIALS = << >>
       /\ IGNOREOBJECTS = {}
       /\ partsCache = {}
       /\ \A o \in DOMAIN objs : ~objs[o].alive

\* the names the file n refers to, n resolved the way readFile resolves it
RefersTo(n) ==
    LET text == Sought(n, << >>, cfg, disk)
    IN {Caseless(text[i].file) : i \in {j \in DOMAIN text : text[j].t = "1" /\ text[j].ok}}

RECURSIVE ReachableFrom(_)
ReachableFrom(S) ==
    LET more == S \cup UNION {RefersTo(n) : n \in S}
    IN IF more = S THEN S ELSE ReachableFrom(more)

\* a file the imported file depends on refers, directly or not, to itself
CyclicReferences ==
    /\ imports > 0
    /\ \E n \in ReachableFrom({plan[imports].filepath}) : n \in ReachableFrom(RefersTo(n))

\* C10: an import of a .dat file whose reference graph has a cycle does not
\* complete
C10_CycleAborts ==
    status = "done" /\ Splitext(plan[imports].filepath) = "dat" => ~CyclicReferences


-----------------------------------------------------------------------------
(* Claims about deferred references and the BFC scope *)

\* the scope after the lines of text have been read, starting from start
RECURSIVE ScopeAfter(_, _)
ScopeAfter(start, text) ==
    IF text = << >> THEN start
    ELSE LET last == text[Len(text)]
             before == ScopeAfter(start, SubSeq(text, 1, Len(text) - 1))
         IN IF last.t = "0" /\ last.kw = "BFC" THEN LineType0BFC(before, last).bfc
            ELSE IF last.t = "1" THEN [before EXCEPT !.invertNext = FALSE]
            ELSE before

\* the indices of the type-1 lines among the first n lines of text, ascending
RefIndices(text, n) == SelectSeq([i \in 1..n |-> i], LAMBDA i : text[i].t = "1")

\* the scope the k-th activation on the stack started from
StartScope(k) == IF k = 1 THEN BFCContextNew ELSE BFCContextFrom(stack[k - 1].cur.bfc)

\* C11: while a file is scanned no reference of it is processed; each type-1
\* line is queued, in file order, with a copy of the scope left by the lines
\* before it (invertNext not yet cleared); the queue is processed from its
\* head once no line is left, and the file read for a reference starts from
\* the scope derived from that copy, whatever BFC lines followed the reference.
C11_DeferredWithScope ==
    \A k \in 1..Len(stack) :
        LET f == stack[k]
            n == Len(f.text) - Len(f.lines)
            refs == RefIndices(f.text, n)
            queued == [j \in 1..Len(refs) |->
                          [line |-> f.text[refs[j]],
                           bfc |-> ScopeAfter(StartScope(k), SubSeq(f.text, 1, refs[j] - 1))]]
            done == Len(refs) - Len(f.readLater)
        IN f.pc # "enter"
           => /\ f.lines = SubSeq(f.text, n + 1, Len(f.text))
              /\ f.bfc = ScopeAfter(StartScope(k), SubSeq(f.text, 1, n))
              /\ done >= 0
              /\ f.readLater = SubSeq(queued, done + 1, Len(refs))
              /\ f.pc = "scan" => done = 0
              /\ f.pc \in {"call", "back"}
                 => /\ done >= 1
                    /\ f.lines = << >>
                    /\ f.cur.line = queued[done].line
                    /\ f.cur.bfc = queued[done].bfc
              /\ k < Len(stack) => f.pc = "call"

\* the reference of "0 BFC INVERTNEXT / 1 4 a.dat / 0 BFC CERTIFY" is being
\* read: its file starts uncertified although the parent is certified by now
C11_Witness ==
    /\ Len(stack) = 2
    /\ stack[1].text = <<Bfc(<<"INVERTNEXT">>), Ref("4", A), Bfc(<<"CERTIFY">>)>>
    /\ stack[1].pc = "call"
    /\ stack[1].bfc.certified = "True" /\ ~stack[1].bfc.invertNext
    /\ stack[1].cur.bfc.certified = "None" /\ stack[1].cur.bfc.invertNext
    /\ stack[2].pc = "scan" /\ stack[2].bfc.certified = "None"

\* a BFC line with the option INVERTNEXT lies among the lines i..j of text
Armed(text, i, j) ==
    \E m \in i..j : /\ text[m].t = "0" /\ text[m].kw = "BFC"
                    /\ \E o \in 1..Len(text[m].opts) : text[m].opts[o] = "INVERTNEXT"

\* C12: the scope captured for a reference has invertNext = true exactly when
\* an INVERTNEXT lies between the previous type-1 line of the file (or its
\* start) and the reference, whatever other lines lie in between; right after
\* a type-1 line has been read invertNext is false.
C12_InvertNextConsumed ==
    \A k \in 1..Len(stack) :
        LET f == stack[k]
            n == Len(f.text) - Len(f.lines)
            refs == RefIndices(f.text, n)
            done == Len(refs) - Len(f.readLater)
            after(j) == IF j = 1 THEN 1 ELSE refs[j - 1] + 1
        IN f.pc # "enter"
           => /\ \A j \in 1..Len(f.readLater) :
                    f.readLater[j].bfc.invertNext
                       = Armed(f.text, after(done + j), refs[done + j] - 1)
              /\ f.pc \in {"call", "back"}
                 => f.cur.bfc.invertNext = Armed(f.text, after(done), refs[done] - 1)
              /\ n > 0 /\ f.text[n].t = "1" => ~f.bfc.invertNext
              /\ f.bfc.invertNext
                    = Armed(f.text, IF refs = << >> THEN 1 ELSE refs[Len(refs)] + 1, n)

\* a.dat holds "0 BFC CERTIFY INVERTNEXT / 3 16 / 1 16 b.dat / 1 16 b.dat":
\* its second reference is being read, captured with invertNext = false
C12_Witness ==
    /\ Len(stack) = 3
    /\ Len(stack[2].text) = 4
    /\ stack[2].pc = "call"
    /\ stack[2].readLater = << >>
    /\ stack[2].cur.line = Ref("16", B)
    /\ ~stack[2].cur.bfc.invertNext
    /\ stack[2].cur.bfc.certified = "True"
    /\ ~stack[3].bfc.accumInvert


-----------------------------------------------------------------------------
(* Claims about the classification and the caching of parts *)

\* C13: a read that ends with no face in the mesh of its object and no child
\* under it returns None and records the name of the file in IGNOREOBJECTS
C13_EmptyIsIgnored ==
    PrevAt("later") /\ PrevTop.readLater = << >>
    /\ prev.meshes[prev.objs[PrevTop.obj].mesh].faces = << >>
    /\ Children(prev.objs, PrevTop.obj) = {}
    => /\ ret = 0
       /\ PrevTop.mname \in IGNOREOBJECTS


IsPoly(l) == l.t \in {"3", "4"} /\ l.ok

\* the colour tokens of the poly lines of text, in order
PolyTokens(text) ==
    LET polys == SelectSeq(text, IsPoly)
    IN [i \in 1..Len(polys) |-> polys[i].col]

\* the colour tokens of the faces of the mesh of object o, in order
FaceTokens(o) ==
    LET faces == meshes[objs[o].mesh].faces
    IN [i \in 1..Len(faces) |-> faces[i].tok]

\* C14: a read served from the part cache returns the faces of the file the
\* name resolves to, and a read suppressed as non-geometric is of a file that
\* has no poly line and no reference line, so no file stands in for another
C14_KeyedByResolvedFile ==
    PrevAt("enter") /\ Len(prev.stack) > 1
    /\ Splitext(PrevTop.fname) \notin {"mpd", "ldr"}
    /\ Sought(PrevTop.fname, PrevTop.subfiles, cfg, disk) # << >>
    => LET text == Sought(PrevTop.fname, PrevTop.subfiles, cfg, disk)
       IN /\ trace.op = "cached" => FaceTokens(ret) = PolyTokens(text)
          /\ trace.op = "ignored" => \A i \in DOMAIN text : text[i].t \notin {"1", "3", "4"}


-----------------------------------------------------------------------------
(* Claims about merging *)

RECURSIVE PolyCount(_)
RECURSIVE PolyCountOf(_)
\* the number of poly lines of the file n and of every file below it
PolyCount(n) == PolyCountOf(Sought(n, << >>, cfg, disk))

PolyCountOf(text) ==
    IF text = << >> THEN 0
    ELSE LET l == Head(text)
         IN (IF IsPoly(l) THEN 1 ELSE IF l.t = "1" /\ l.ok THEN PolyCount(Caseless(l.file)) ELSE 0)
               + PolyCountOf(Tail(text))

\* C15: with merge parts on, the object returned for a file of <root>/parts
\* has no children and its mesh holds one face for every poly line of the
\* file and of the files below it
C15_PartIsOneMesh ==
    PrevAt("later") /\ PrevTop.readLater = << >> /\ cfg.MERGEPARTS
    /\ At(cfg.LDRAWDIR, "parts", PrevTop.fname) \in DOMAIN disk
    /\ ret # 0
    => /\ Children(objs, ret) = {}
       /\ Len(meshes[objs[ret].mesh].faces) = PolyCount(PrevTop.fname)

\* the material a face with this slot index of object o is drawn with in g
Drawn(g, o, slot) ==
    IF slot = 0 THEN g.objs[o].mat0 ELSE g.meshes[g.objs[o].mesh].mats[slot + 1]

\* C16: after a child has been merged into its parent, each child face is in
\* the parent's mesh on a slot drawn with the material it was drawn with on
\* the child, on slot 0 when it was on slot 0 of a child instantiated with 16
\* or 24; the parent's slots and its own faces are as before.
C16_MergeKeepsColour ==
    PrevAt("back") /\ trace.op = "merged"
    => LET child == prev.ret
           parent == PrevTop.obj
           cfaces == prev.meshes[prev.objs[child].mesh].faces
           pmesh == objs[parent].mesh
           before == prev.meshes[pmesh]
           after == meshes[pmesh]
       IN /\ Len(after.faces) = Len(cfaces) + Len(before.faces)
          /\ \A i \in 1..Len(cfaces) :
                /\ Drawn(G, parent, after.faces[i].slot) = Drawn(G, child, cfaces[i].slot)
                /\ after.faces[i].tok = cfaces[i].tok
                /\ cfaces[i].slot = 0 /\ PrevTop.cur.matId \in {"16", "24"}
                   => after.faces[i].slot = 0
          /\ SubSeq(after.faces, Len(cfaces) + 1, Len(after.faces)) = before.faces
          /\ SubSeq(after.mats, 1, Len(before.mats)) = before.mats
          /\ objs[parent].mat0 = prev.objs[parent].mat0

\* C17: below the top file, every activation of readFile holds the archive
\* that the split of the top file built, and a read of a name that is an entry
\* of that archive parses the entry's text (or is served from the objects
\* already built), at any depth.
C17_ArchivePassedDown ==
    /\ \A i \in 2..Len(stack) : stack[i].subfiles = stack[1].subfiles
    /\ PrevAt("enter") /\ Len(prev.stack) > 1
          /\ PrevTop.fname \in DOMAIN prev.stack[1].subfiles
       => /\ trace.op \in {"parse", "cached", "ignored"}
          /\ trace.op = "parse" => Top(G).text = prev.stack[1].subfiles[PrevTop.fname]

\* the objects of os that bpy.data.objects[mname] may denote: alive, not a
\* lamp, carrying the name without a numeric suffix
Built(mname, os) ==
    {i \in 1..Len(os) : os[i].alive /\ ~os[i].suffix /\ ~os[i].lamp /\ os[i].name = mname}

\* readFile(fname, subfiles=...) gets past its lookup: fname is an entry of
\* the archive or one of the candidate paths exists
Resolves(fname, subfiles) ==
    fname \in DOMAIN subfiles \/ FirstExisting(Paths(fname, cfg), disk) # 0

\* C18: no name is parsed twice in an import; a read of a name for which an
\* object exists returns, without parsing a line, a new object that is a copy
\* of it: it shares the mesh of the existing object and its slot 0 holds the
\* material of this reference; the existing objects and meshes are untouched.
C18_BuiltOnce ==
    /\ \A i, j \in DOMAIN parses : parses[i] = parses[j] => i = j
    /\ PrevAt("enter")
          /\ Resolves(PrevTop.fname, PrevTop.subfiles)
          /\ (PrevTop.fname \in DOMAIN PrevTop.subfiles
               \/ Splitext(PrevTop.fname) \notin {"mpd", "ldr"})
          /\ Basename(PrevTop.fname) \notin prev.IGNOREOBJECTS
          /\ Built(Basename(PrevTop.fname), prev.objs) # {}
       => /\ trace.op = "cached"
          /\ parses = prev.parses
          /\ meshes = prev.meshes
          /\ SubSeq(objs, 1, Len(prev.objs)) = prev.objs
          /\ ret > Len(prev.objs) /\ ret <= Len(objs)
          /\ \E o \in Built(Basename(PrevTop.fname), prev.objs) :
                /\ objs[ret].mesh = prev.objs[o].mesh
                /\ objs[ret].name = prev.objs[o].name
          /\ objs[ret].suffix
          /\ objs[ret].mat0 = PrevTop.material
          /\ stack = Returned(prev.stack)

\* the top file refers to a.dat a second time, with another colour: the read
\* has returned a copy whose slot 0 holds the new colour, and a.dat has been
\* parsed once
C18_Witness ==
    /\ PrevAt("enter") /\ Len(prev.stack) = 2 /\ PrevTop.fname = A
    /\ trace.op = "cached"
    /\ Parsed(A) = 1
    /\ \E o \in Built(A, prev.objs) :
          /\ objs[ret].mesh = prev.objs[o].mesh
          /\ objs[ret].mat0 # prev.objs[o].mat0
          /\ meshes[prev.objs[o].mesh].faces # << >>

\* the colour parameters a lookup of code returns: those of the material
\* that bpy.data.materials holds under the name registered for the code
Lookup(code, mats, bm) == bm[mats[code]]

\* C19: after a !COLOUR line has been read, a lookup of its code returns the
\* parameters of that line and a lookup of any other code or token returns
\* what it returned before; after a line with a direct colour has been read,
\* a lookup of the token returns the colour made of the token at its first
\* use and a lookup of any other code returns what it returned before.
C19_LastRegistrationWins ==
    /\ PrevAt("scan") /\ PrevTop.lines # << >> /\ Head(PrevTop.lines).kw = "!COLOUR"
       => LET line == Head(PrevTop.lines)
          IN /\ line.col \in DOMAIN MATERIALS
             /\ Lookup(line.col, MATERIALS, bmats) = line.val
             /\ \A d \in DOMAIN prev.MATERIALS \ {line.col} :
                   /\ d \in DOMAIN MATERIALS
                   /\ Lookup(d, MATERIALS, bmats) = Lookup(d, prev.MATERIALS, prev.bmats)
    /\ PrevAt("scan") /\ PrevTop.lines # << >> /\ Head(PrevTop.lines).t \in {"3", "4"}
          /\ Head(PrevTop.lines).col \in DirectTokens
       => LET s == Head(PrevTop.lines).col
          IN /\ s \in DOMAIN MATERIALS
             /\ Lookup(s, MATERIALS, bmats) = DirectValue(s)
             /\ \A d \in DOMAIN prev.MATERIALS \ {s} :
                   /\ d \in DOMAIN MATERIALS
                   /\ Lookup(d, MATERIALS, bmats) = Lookup(d, prev.MATERIALS, prev.bmats)

\* C20: a line read in a file scope never turns a certification of true into
\* false or one of false into true, whatever the options of a BFC line are:
\* the scope after a type-0 or a type-1 line holds the value it held before
\* unless that value was None.
C20_CertifiedSetOnce ==
    scopeOp \in {"bfc", "raised", "defer"}
    => /\ scopePrev.certified = "True" => scope.certified = "True"
       /\ scopePrev.certified = "False" => scope.certified = "False"

\* a BFC line with NOCERTIFY has been read in a scope certified true: the
\* assert failed and the scope is still certified true
C20_Witness ==
    /\ scopeOp = "raised"
    /\ scopePrev.certified = "True"
    /\ scope.certified = "True"

\* the other winding
Flip(w) == IF w = CW THEN CCW ELSE CW

\* the winding of a scope with this accumInvert after the options opts,
\* taken left to right, when it was w before: each CCW or CW sets it to the
\* declared winding, flipped when accumInvert holds; no other option counts
RECURSIVE WindingAfter(_, _, _)
WindingAfter(w, accumInvert, opts) ==
    IF opts = << >> THEN w
    ELSE LET declared == IF Head(opts) = "CCW" THEN CCW ELSE CW
             next == IF Head(opts) \in {"CCW", "CW"}
                     THEN (IF accumInvert THEN Flip(declared) ELSE declared)
                     ELSE w
         IN WindingAfter(next, accumInvert, Tail(opts))

\* C21: after a BFC line has been read, the winding of the scope is the one
\* declared by the last CCW or CW of the line, flipped when the scope's
\* accumInvert holds, and the winding it had when the line has neither; the
\* line leaves accumInvert as it was.
C21_WindingXorInvert ==
    scopeOp = "bfc"
    => /\ scope.winding = WindingAfter(scopePrev.winding, scopePrev.accumInvert, scopeLine)
       /\ scope.accumInvert = scopePrev.accumInvert
       /\ (\A i \in DOMAIN scopeLine : scopeLine[i] \notin {"CCW", "CW"})
          => scope.winding = scopePrev.winding

\* the line "0 BFC CCW CW" has been read in a scope with accumInvert: the
\* winding, CW before, is CCW
C21_Witness ==
    /\ scopeOp = "bfc"
    /\ scopeLine = <<"CCW", "CW">>
    /\ scopePrev.accumInvert
    /\ scopePrev.winding = CW
    /\ scope.winding = CCW

\* the names a read of this import can be given: the files of the disk and
\* the entries of the archives in use, in lower case and without directory
DistinctNames ==
    {Caseless(Basename(q.name)) : q \in DOMAIN disk}
        \cup UNION {{Basename(n) : n \in DOMAIN stack[i].subfiles} : i \in DOMAIN stack}

\* the name is that of a parse begun in this import
Begun(mname, ps) == \E i \in DOMAIN ps : ps[i] = mname

\* what C22 says of every state: a name whose parse has begun has an object
\* under that name or is in IGNOREOBJECTS; there are no more parses than
\* names; a read of a name whose parse has begun returns and parses nothing
ParsesBounded ==
    /\ \A i \in DOMAIN parses :
          \/ \E o \in DOMAIN objs : objs[o].alive /\ ~objs[o].suffix /\ objs[o].name = parses[i]
          \/ parses[i] \in IGNOREOBJECTS
    /\ Len(parses) <= Cardinality(DistinctNames)
    /\ PrevAt("enter") /\ Begun(Basename(PrevTop.fname), prev.parses) /\ trace.op # "split"
       => /\ parses = prev.parses
          /\ trace.op \in {"cached", "ignored", "notfound"}
          /\ stack = Returned(prev.stack)

\* the steps one parse of text can take: readFile is entered, each line is
\* read, the scan ends, each deferred reference is called, entered and
\* returned from, and readFile finishes
RECURSIVE WorkOf(_)
WorkOf(text) ==
    IF text = << >> THEN 3
    ELSE (IF Head(text).t = "1" THEN 4 ELSE 1) + WorkOf(Tail(text))

\* the sum of WorkOf over the files of the set Q of paths
RECURSIVE WorkOfFiles(_)
WorkOfFiles(Q) ==
    IF Q = {} THEN 0
    ELSE LET q == CHOOSE x \in Q : TRUE
         IN WorkOf(disk[q]) + 1 + WorkOfFiles(Q \ {q})

\* the steps of main() itself: the two calls of readFile and the link
MainWork == 3

\* C22: an import ends after a number of steps bounded by the lines of the
\* files, each file counted once, also when a file refers to itself directly
\* or through other files, and until it has ended it can take a step; at
\* every moment each name whose parse has begun is registered as an object or
\* as non-geometric, a read of such a name returns without parsing, and the
\* number of parses does not exceed the number of distinct names.
C22_ReadTerminates ==
    /\ ParsesBounded
    /\ steps <= MainWork + WorkOfFiles(DOMAIN disk)
    /\ Running => stack = << >> \/ Top(G).pc \in {"enter", "scan", "later", "back"}
    /\ status \in {"idle", "ldconfig", "model", "done", "failed"}

\* a read of a name whose parse is still in progress further down the stack
\* has returned a copy of the object under construction
C22_Witness ==
    /\ PrevAt("enter") /\ trace.op = "cached"
    /\ \E i \in 1..(Len(prev.stack) - 1) :
          /\ prev.stack[i].mname = Basename(PrevTop.fname)
          /\ prev.stack[i].pc \in {"call", "later", "back"}
    /\ CyclicReferences

\* readLine returns True for some line of text: the file is not discarded
HasData(text) == \E i \in DOMAIN text : text[i].t \in {"1", "3", "4"}

\* the references of text that a read turns into child objects, in order
KeptRefs(text) ==
    SelectSeq(text, LAMBDA l : l.t = "1" /\ HasData(Sought(Lower(l.file), << >>, cfg, disk)))

\* the colours a read of fname with colour material gives, node for node:
\* the material of slot 0 of the object and, in order, the same of each child
RECURSIVE FreshRead(_, _)
FreshRead(fname, material) ==
    LET refs == KeptRefs(Sought(fname, << >>, cfg, disk))
    IN [mat0 |-> material,
        kids |-> [i \in 1..Len(refs) |->
                    FreshRead(Lower(refs[i].file),
                              IF refs[i].col \in {"16", "24"} THEN material
                              ELSE MATERIALS[refs[i].col])]]

\* the colours of the object o and of its descendants, node for node
RECURSIVE Subtree(_, _)
Subtree(os, o) ==
    LET cs == Ascending(Children(os, o))
    IN [mat0 |-> os[o].mat0, kids |-> [i \in 1..Len(cs) |-> Subtree(os, cs[i])]]

\* C23: with merging off, the object a read returns from the objects already
\* built has, node for node, the slot-0 colours a read of the file with the
\* colour of this reference gives: the new colour where only 16/24 references
\* lead to the node, else the colour of the nearest reference above it that
\* names a colour.
C23_CloneEqualsFreshRead ==
    PrevAt("enter") /\ trace.op = "cached" /\ ~cfg.MERGEPARTS /\ status = "model"
    => Subtree(objs, ret) = FreshRead(PrevTop.fname, PrevTop.material)

====
